---- MODULE Spec2Model ----
(***************************************************************************)
(* Adaptive UDP ramp test (src/adaptive_udp.py, main).                     *)
(*                                                                         *)
(* One session: the ramp loop of main() issues iperf3 probes at increasing *)
(* targets, judges every measured probe against the loss / jitter /        *)
(* throughput-drop thresholds and, on the first rejected ramp step that    *)
(* follows an accepted one, re-tests the last accepted target (confirm)    *)
(* and possibly one step below it (fallback) before it writes the result.  *)
(*                                                                         *)
(* Bandwidths are whole bits per second, small enough to enumerate; the    *)
(* "+ 1" of the loop condition is the code's 1 bps.  An optional value     *)
(* (Python None / an absent key) is the empty tuple, a present value v is  *)
(* the one-element tuple <<v>>.  The tool's JSON document is taken to be   *)
(* an object whose three statistics are numbers or absent.                 *)
(*                                                                         *)
(* The codec (parse_bps, bps_to_str) is modelled on text: a string is a    *)
(* TLA+ string, a float is a decimal coef * 10^exp.  float() is modelled   *)
(* for signed decimal literals; exponents, "inf", "nan" and underscores    *)
(* are not among the characters of the texts.  The decimals are exact: the *)
(* binary rounding error of a float product or quotient (a relative 1e-16) *)
(* shows only where it decides which neighbour an exact half is printed as.*)
(***************************************************************************)
EXTENDS Integers, Sequences, FiniteSets, TLC

VARIABLES
    start_bps,          \* parse_bps(args.start), None when it does not parse
    step_bps,           \* parse_bps(args.step)
    max_bps,            \* parse_bps(args.max_bps)
    current,            \* the ramp's next target
    steps,              \* the recorded step dicts, in order
    last_ok,            \* the last accepted step dict, or None
    stop_reason,        \* "max_reached" until a break assigns it
    prev_throughput,    \* the drop baseline, or None
    fallback_attempted, \* the one-shot flag of the fallback block
    issued,             \* every run_iperf call made so far: target and role
    returned,           \* what each of these calls returned, in order
    pc,                 \* where main() stands
    codec,              \* one bps_to_str / parse_bps conversion on its own
    adapter,            \* one run_iperf call on its own
    output,             \* args.meta as json.loads read it, and the document written
    args                \* the texts of --start, --step and --max before they are parsed

vars == << start_bps, step_bps, max_bps, current, steps, last_ok, stop_reason,
           prev_throughput, fallback_attempted, issued, returned, pc, codec,
           adapter, output, args >>

session == << start_bps, step_bps, max_bps, current, steps, last_ok, stop_reason,
              prev_throughput, fallback_attempted, issued, returned, pc >>

config == << start_bps, step_bps, max_bps >>

\* What the loop of a session leaves alone: the conversion, the run_iperf
\* call and the output document that are followed on their own, and the
\* argument texts.
aside == << codec, adapter, output, args >>

None == << >>
Some(v) == << v >>

(* ------------------------------ bounds --------------------------------- *)

\* Largest bandwidth (bps) a configuration value takes.
MaxBps == 4

\* Number of probes of a ramp with step 0 that are recorded.
MaxProbes == 4

\* Largest coefficient and number of exponents of the values m * 10^e that
\* are encoded.
MaxCoef == 15
MaxExp == 10

(* ------------------------- argparse defaults --------------------------- *)

loss_threshold == 1
jitter_threshold == 5
drop_threshold == 5

(* ------------------------------- codec --------------------------------- *)

RECURSIVE Pow10(_)
Pow10(n) == IF n = 0 THEN 1 ELSE 10 * Pow10(n - 1)

\* The float coef * 10^exp, with a coefficient that does not end in 0.
RECURSIVE Dec(_, _)
Dec(coef, exp) ==
    IF coef = 0 THEN [ coef |-> 0, exp |-> 0 ]
    ELSE IF coef % 10 = 0 THEN Dec(coef \div 10, exp + 1)
    ELSE [ coef |-> coef, exp |-> exp ]

\* Variant: d > 1e<e>, a value equal to the scale falls to the unit below.
MoreThanPow10(d, e) ==
    /\ d.coef > 0
    /\ \/ d.exp > e
       \/ d.exp = e /\ d.coef > 1
       \/ d.exp < e /\ e - d.exp <= 9 /\ d.coef > Pow10(e - d.exp)

\* d >= 1e<e>
AtLeastPow10(d, e) ==
    /\ d.coef > 0
    /\ \/ d.exp >= e
       \/ e - d.exp <= 9 /\ d.coef >= Pow10(e - d.exp)

CharAt(s, i) == SubSeq(s, i, i)

DigitChars == "0123456789"
DigitChar(n) == CharAt(DigitChars, n + 1)
IsDigit(c) == \E n \in 0 .. 9 : DigitChar(n) = c
DigitValue(c) == CHOOSE n \in 0 .. 9 : DigitChar(n) = c

\* The integers that coef * 10^k, coef >= 0, is rounded to by a format with
\* no further digits.  An exact half goes to the even neighbour when the
\* float holds it exactly (a value n + 0.5); after a division by 1e3, 1e6 or
\* 1e9 a half is not a binary fraction, the float lies on either side of it
\* and either neighbour can be printed.
Rounded(coef, k, exactHalf) ==
    IF k >= 0 THEN { coef * Pow10(k) }
    ELSE IF -k > 9 THEN { 0 }
    ELSE LET p == Pow10(-k)
             q == coef \div p
             r == coef % p
         IN  IF 2 * r < p THEN { q }
             ELSE IF 2 * r > p THEN { q + 1 }
             ELSE IF exactHalf THEN { IF q % 2 = 0 THEN q ELSE q + 1 }
             ELSE { q, q + 1 }

\* str(n), n >= 0
RECURSIVE IntToStr(_)
IntToStr(n) ==
    IF n < 10 THEN DigitChar(n) ELSE IntToStr(n \div 10) \o DigitChar(n % 10)

\* f"{v:.3f}" of v = n / 1000
Fixed3(n) ==
    IntToStr(n \div 1000) \o "." \o DigitChar((n \div 100) % 10)
        \o DigitChar((n \div 10) % 10) \o DigitChar(n % 10)

\* f"{v:.0f}" of the float d
Fixed0(d) ==
    IF d.coef < 0
    THEN { "-" \o IntToStr(n) : n \in Rounded(-d.coef, d.exp, TRUE) }
    ELSE { IntToStr(n) : n \in Rounded(d.coef, d.exp, TRUE) }

\* bps_to_str(bps): the strings it can return for the float bps.
bps_to_str(bps) ==
    IF AtLeastPow10(bps, 9)
    THEN { Fixed3(n) \o "G" : n \in Rounded(bps.coef, bps.exp - 6, FALSE) }
    ELSE IF AtLeastPow10(bps, 6)
    THEN { Fixed3(n) \o "M" : n \in Rounded(bps.coef, bps.exp - 3, FALSE) }
    ELSE IF AtLeastPow10(bps, 3)
    THEN { Fixed3(n) \o "K" : n \in Rounded(bps.coef, bps.exp, FALSE) }
    ELSE Fixed0(bps)

Whitespace == { " " }

\* str.strip()
RECURSIVE strip(_)
strip(s) ==
    IF s = "" THEN s
    ELSE IF CharAt(s, 1) \in Whitespace THEN strip(SubSeq(s, 2, Len(s)))
    ELSE IF CharAt(s, Len(s)) \in Whitespace THEN strip(SubSeq(s, 1, Len(s) - 1))
    ELSE s

UpperCase == "ABCDEFGHIJKLMNOPQRSTUVWXYZ"
LowerCase == "abcdefghijklmnopqrstuvwxyz"

LowerChar(c) ==
    IF \E i \in 1 .. Len(UpperCase) : CharAt(UpperCase, i) = c
    THEN CharAt(LowerCase, CHOOSE i \in 1 .. Len(UpperCase) : CharAt(UpperCase, i) = c)
    ELSE c

\* Variant: the text keeps its case.
lowerKeepsCase(s) == s

\* str.lower()
RECURSIVE lower(_)
lower(s) ==
    IF s = "" THEN s ELSE LowerChar(CharAt(s, 1)) \o lower(SubSeq(s, 2, Len(s)))

AllDigits(s) == \A i \in 1 .. Len(s) : IsDigit(CharAt(s, i))

RECURSIVE DigitsValue(_)
DigitsValue(s) ==
    IF s = "" THEN 0
    ELSE 10 * DigitsValue(SubSeq(s, 1, Len(s) - 1)) + DigitValue(CharAt(s, Len(s)))

\* float(s): the float of a signed decimal literal with surrounding
\* whitespace, None where float() raises.
float(s) ==
    LET t == strip(s)
        signed == t # "" /\ CharAt(t, 1) \in { "+", "-" }
        body == IF signed THEN SubSeq(t, 2, Len(t)) ELSE t
        dots == { i \in 1 .. Len(body) : CharAt(body, i) = "." }
        dot == IF dots = {} THEN Len(body) + 1 ELSE CHOOSE i \in dots : TRUE
        int == SubSeq(body, 1, dot - 1)
        frac == SubSeq(body, dot + 1, Len(body))
    IN  IF /\ Cardinality(dots) <= 1
           /\ AllDigits(int)
           /\ AllDigits(frac)
           /\ Len(int) + Len(frac) >= 1
        THEN LET magnitude == DigitsValue(int \o frac)
             IN  Some(Dec(IF signed /\ CharAt(t, 1) = "-" THEN -magnitude ELSE magnitude,
                          -Len(frac)))
        ELSE None

\* mult, as a power of ten
SuffixExp(c) ==
    CASE c = "k" -> 3 [] c = "m" -> 6 [] c = "g" -> 9 [] c = "t" -> 12 [] OTHER -> 0

\* parse_bps(value)
parse_bps(value) ==
    IF value = None THEN None
    ELSE LET s == lower(strip(value[1]))
         IN  IF s = "" THEN None
             ELSE LET last == CharAt(s, Len(s))
                      number == float(IF SuffixExp(last) > 0
                                      THEN SubSeq(s, 1, Len(s) - 1) ELSE s)
                  IN  IF number = None THEN None
                      ELSE Some(Dec(number[1].coef, number[1].exp + SuffixExp(last)))

\* The values that are encoded: m * 10^e from 0.1 bps upwards, 2G, 1.5M,
\* 1.5K and 250, and values that fall between two printed numbers.
CodecValues ==
    { Dec(m, e - 1) : m \in 0 .. MaxCoef, e \in 0 .. MaxExp }
        \cup { Dec(2000000000, 0), Dec(1500000, 0), Dec(1500, 0), Dec(250, 0) }
        \cup { Dec(2504, -1), Dec(2505, -1), Dec(2515, -1), Dec(9994, -1),
               Dec(9996, -1), Dec(15005, -1), Dec(25005, -1), Dec(9999996, -1),
               Dec(999999, 0), Dec(1234567, 0), Dec(999999999, 0),
               Dec(1000500000, 0), Dec(1234567891, 0) }

\* The texts that are decoded as they are; None is Python's None.
CodecTexts ==
    { None, Some(""), Some("  "), Some("k"), Some(" G "), Some("abc"), Some("1.5x"),
      Some("250"), Some(" 250 "), Some("1.5M"), Some("1.5m"), Some("2 g"),
      Some("0"), Some("-2k"), Some("+3"), Some(".5k"), Some("1.k"), Some("."),
      Some("1.2.3"), Some("1t"), Some("-"), Some("12kk") }

(* ------------------------------ inputs --------------------------------- *)

StartValues == 1 .. MaxBps
StepValues == 1 .. 2
MaxValues == 1 .. MaxBps

\* Configurations with a positive step: every combination of the values
\* above, and the ramp 2, 4, 6, 8, 10.
Configurations ==
    (StartValues \X StepValues \X MaxValues) \cup { << 2, 2, 10 >> }

\* Configurations with a step of zero, which parse_bps returns for "0".
ZeroStepConfigurations == StartValues \X { 0 } \X MaxValues

\* Configurations with a negative step, which parse_bps returns for "-1".
NegativeStepConfigurations == StartValues \X { -1 } \X MaxValues

\* Variant: run_iperf names an error by its kind.
ErrorsNamedByKind == { "timeout", "process_error", "parse_error" }

\* The "error" strings run_iperf returns: a timeout, a non-zero exit code,
\* output that is not JSON.
Errors == { "timeout", "exit_1", "json_parse" }

\* The statistics extract_udp_stats reads from a parsed document.  Loss and
\* jitter: absent, equal to the threshold, above it.  Throughput: absent,
\* 100, exactly 95 % of 100, below 95 % of 100.
Stats(l, j, t) == [ loss_percent |-> l, jitter_ms |-> j, throughput_bps |-> t ]

Measurements ==
    { Stats(None, None, None),
      Stats(Some(loss_threshold), Some(jitter_threshold), Some(100)),
      Stats(Some(loss_threshold), None, Some(95)),
      Stats(None, Some(jitter_threshold), Some(94)),
      Stats(Some(loss_threshold + 1), Some(jitter_threshold), Some(100)),
      Stats(Some(loss_threshold), Some(jitter_threshold + 1), None),
      Stats(Some(loss_threshold + 1), Some(jitter_threshold + 1), Some(94)) }

\* What run_iperf returns: {"error": ...} or {"data": ...}.
ProbeResults ==
    { [ error |-> Some(e), data |-> None ] : e \in Errors }
        \cup { [ error |-> None, data |-> Some(m) ] : m \in Measurements }

(* ------------------------- threshold checks ---------------------------- *)

LossExceeded(loss) == loss # None /\ loss[1] > loss_threshold

JitterExceeded(jitter) == jitter # None /\ jitter[1] > jitter_threshold

\* throughput < prev_throughput * (1 - drop_threshold / 100.0), in hundredths
ThroughputDropped(prev, throughput) ==
    /\ prev # None
    /\ throughput # None
    /\ throughput[1] * 100 < prev[1] * (100 - drop_threshold)

\* ok of a ramp step
NormalOk(stats, prev) ==
    /\ ~LossExceeded(stats.loss_percent)
    /\ ~JitterExceeded(stats.jitter_ms)
    /\ ~ThroughputDropped(prev, stats.throughput_bps)

\* ok_confirm
ConfirmOk(stats, prev) ==
    /\ ~LossExceeded(stats.loss_percent)
    /\ ~JitterExceeded(stats.jitter_ms)
    /\ ~ThroughputDropped(prev, stats.throughput_bps)

\* Variant: the fallback step is judged on its loss and jitter alone.
RetryOkWithoutBaseline(stats, prev) ==
    /\ ~LossExceeded(stats.loss_percent)
    /\ ~JitterExceeded(stats.jitter_ms)

\* Variant: a fallback throughput of exactly the allowed fraction of the
\* baseline is a drop.
RetryOkDropInclusive(stats, prev) ==
    /\ ~LossExceeded(stats.loss_percent)
    /\ ~JitterExceeded(stats.jitter_ms)
    /\ ~( /\ prev # None
          /\ stats.throughput_bps # None
          /\ stats.throughput_bps[1] * 100 <= prev[1] * (100 - drop_threshold) )

\* ok_retry
RetryOk(stats, prev) ==
    /\ ~LossExceeded(stats.loss_percent)
    /\ ~JitterExceeded(stats.jitter_ms)
    /\ ~ThroughputDropped(prev, stats.throughput_bps)

\* Variant: only the loss and the drop check assign stop_reason.
RampStopReasonWithoutJitter(stats, prev, reason) ==
    LET r1 == IF LossExceeded(stats.loss_percent) THEN "loss_threshold" ELSE reason
    IN  IF ThroughputDropped(prev, stats.throughput_bps) THEN "throughput_drop" ELSE r1

\* stop_reason after the three checks of a ramp step: each check that
\* triggers assigns it, in the order loss, jitter, drop.
RampStopReason(stats, prev, reason) ==
    LET r1 == IF LossExceeded(stats.loss_percent) THEN "loss_threshold" ELSE reason
        r2 == IF JitterExceeded(stats.jitter_ms) THEN "jitter_threshold" ELSE r1
    IN  IF ThroughputDropped(prev, stats.throughput_bps) THEN "throughput_drop" ELSE r2

(* ---------------------------- step dicts ------------------------------- *)

MeasuredStep(target, role, stats, ok) ==
    [ target_bps |-> target, role |-> role, ok |-> ok, error |-> None,
      loss_percent |-> stats.loss_percent, jitter_ms |-> stats.jitter_ms,
      throughput_bps |-> stats.throughput_bps ]

FailedStep(target, role, err) ==
    [ target_bps |-> target, role |-> role, ok |-> FALSE, error |-> Some(err),
      loss_percent |-> None, jitter_ms |-> None, throughput_bps |-> None ]

Probe(target, role) == [ target_bps |-> target, role |-> role ]

(* --------------------------- ramp helpers ------------------------------ *)

\* Variant: the bound is exclusive and has no 1 bps of tolerance.
RampContinuesBelowMax(cur, max) == cur < max

\* Variant: the loop runs on to two bits per second above max.
RampContinuesPastMax(cur, max) == cur <= max + 2

\* while current <= max_bps + 1
RampContinues(cur, max) == cur <= max + 1

\* Variant: an accepted step without a throughput clears the baseline.
NextBaselineCleared(prev, throughput) == throughput

\* prev_throughput = throughput if throughput is not None else prev_throughput
NextBaseline(prev, throughput) == IF throughput # None THEN throughput ELSE prev

\* Variant: the step is adopted whether or not it is ok.
AdoptAlways(ok, step, last) == Some(step)

\* last_ok = step, under "if ok"
Adopt(ok, step, last) == IF ok THEN Some(step) ELSE last

\* Variant: the step-down target is not held at start.
StepdownTargetUnclamped(start, last_target, step) == last_target - step

\* down = max(start_bps, last_ok["target_bps"] - step_bps)
StepdownTarget(start, last_target, step) ==
    IF start >= last_target - step THEN start ELSE last_target - step

\* Variant: the fallback probe is also issued at last_ok's own target.
StepdownAllowedAtSameTarget(down, last_target) == down <= last_target

\* if down < last_ok["target_bps"]
StepdownAllowed(down, last_target) == down < last_target

\* Variant: the confirm branch appends the step-down suffix.
ConfirmedReasonAsStepdown(reason) == reason \o "_fallback_stepdown"

\* stop_reason = f"{stop_reason}_fallback_confirmed"
ConfirmedReason(reason) == reason \o "_fallback_confirmed"

\* Variant: an accepted fallback step leaves stop_reason as it was.
SteppedDownReasonUnmarked(reason) == reason

\* stop_reason = f"{stop_reason}_fallback_stepdown"
SteppedDownReason(reason) == reason \o "_fallback_stepdown"

\* "selected": last_ok of the output
selected == last_ok

(* ------------------------------- Init ---------------------------------- *)

\* The state at the top of the while loop, or at SystemExit when one of the
\* three bandwidths does not parse.
\* No run_iperf call and no output document is followed on its own.
AdapterIdle ==
    [ pc |-> "idle", direction |-> None, cmd |-> << >>, executions |-> 0,
      completed |-> None, result |-> None ]

OutputIdle ==
    [ pc |-> "idle", direction |-> None, loaded |-> None, meta |-> None, written |-> None ]

Init ==
    /\ \/ \E c \in Configurations :
            /\ start_bps = Some(c[1])
            /\ step_bps = Some(c[2])
            /\ max_bps = Some(c[3])
            /\ pc = "loop"
       \/ \E c \in ZeroStepConfigurations :
            /\ start_bps = Some(c[1])
            /\ step_bps = Some(c[2])
            /\ max_bps = Some(c[3])
            /\ pc = "loop"
       \/ \E c \in NegativeStepConfigurations :
            /\ start_bps = Some(c[1])
            /\ step_bps = Some(c[2])
            /\ max_bps = Some(c[3])
            /\ pc = "loop"
       \/ \E c \in { << None, Some(1), Some(1) >>, << Some(1), None, Some(1) >>,
                    << Some(1), Some(1), None >> } :
            /\ start_bps = c[1]
            /\ step_bps = c[2]
            /\ max_bps = c[3]
            /\ pc = "invalid"
    /\ current = start_bps
    /\ steps = << >>
    /\ last_ok = None
    /\ stop_reason = "max_reached"
    /\ prev_throughput = None
    /\ fallback_attempted = FALSE
    /\ issued = << >>
    /\ returned = << >>
    /\ codec = [ pc |-> "idle", bps |-> None, text |-> None, decoded |-> None ]
    /\ adapter = AdapterIdle
    /\ output = OutputIdle
    /\ args = None

(* ------------------------------ actions -------------------------------- *)

\* The records steps, issued and returned of a ramp that does not advance
\* (step 0) are kept for MaxProbes probes.  Past that the run is still
\* followed, in the case where the probe returns what the previous one
\* returned, but the records no longer grow: with step 0 such a probe is
\* accepted again and leaves every other variable as it was.
RecordsFull == step_bps[1] = 0 /\ Len(issued) >= MaxProbes

\* A ramp with a negative step goes down for as long as its probes are
\* accepted; it is followed for MaxProbes probes, the last of them in the
\* cases where it is not accepted.
RampFollowed == step_bps[1] >= 0 \/ Len(issued) < MaxProbes

\* Loop head, condition true: run_iperf is called at the current target.
IssueNormal ==
    /\ pc = "loop"
    /\ RampContinues(current[1], max_bps[1])
    /\ issued' = IF RecordsFull THEN issued
                 ELSE Append(issued, Probe(current[1], "normal"))
    /\ pc' = "ramp_probe"
    /\ UNCHANGED << config, aside, current, steps, last_ok, stop_reason, prev_throughput,
                    fallback_attempted, returned >>

\* Loop head, condition false: the loop ends and the output is written.
RampExhausted ==
    /\ pc = "loop"
    /\ ~RampContinues(current[1], max_bps[1])
    /\ pc' = "done"
    /\ UNCHANGED << config, aside, current, steps, last_ok, stop_reason, prev_throughput,
                    fallback_attempted, issued, returned >>

\* Variant: the failed step is recorded but the loop is not left.
RampProbeFailedNoBreak(err) ==
    /\ steps' = Append(steps, FailedStep(current[1], "normal", err))
    /\ stop_reason' = err
    /\ pc' = "loop"
    /\ UNCHANGED << current, last_ok, prev_throughput, fallback_attempted, issued >>

\* Variant: the failed step replaces the steps recorded so far.
RampProbeFailedAlone(err) ==
    /\ steps' = << FailedStep(current[1], "normal", err) >>
    /\ stop_reason' = err
    /\ pc' = "done"
    /\ UNCHANGED << current, last_ok, prev_throughput, fallback_attempted, issued >>

\* if "error" in result: record the step, take the error as stop reason, break
RampProbeFailed(err) ==
    /\ steps' = Append(steps, FailedStep(current[1], "normal", err))
    /\ stop_reason' = err
    /\ pc' = "done"
    /\ UNCHANGED << current, last_ok, prev_throughput, fallback_attempted, issued >>

\* if ok: adopt the step, move the baseline, advance the target
RampStepAccepted(throughput) ==
    /\ RampFollowed
    /\ prev_throughput' = NextBaseline(prev_throughput, throughput)
    /\ current' = Some(current[1] + step_bps[1])
    /\ pc' = "loop"
    /\ UNCHANGED << fallback_attempted, issued >>

\* else: break when nothing was accepted before or the fallback was already
\* attempted; otherwise set the flag and call run_iperf at last_ok's target
RampStepRejected ==
    IF last_ok = None \/ fallback_attempted
    THEN /\ pc' = "done"
         /\ UNCHANGED << current, prev_throughput, fallback_attempted, issued >>
    ELSE /\ fallback_attempted' = TRUE
         /\ issued' = Append(issued, Probe(last_ok[1].target_bps, "confirm"))
         /\ pc' = "confirm_probe"
         /\ UNCHANGED << current, prev_throughput >>

\* The ramp probe returns: the rest of the loop body, up to the next call
\* of run_iperf or to the end of main().
NormalOutcome(result) ==
    /\ pc = "ramp_probe"
    /\ IF Len(returned) < Len(issued)
       THEN /\ returned' = Append(returned, result)
            /\ IF result.error # None
               THEN RampProbeFailed(result.error[1])
               ELSE LET stats == result.data[1]
                        ok == NormalOk(stats, prev_throughput)
                        step == MeasuredStep(current[1], "normal", stats, ok)
                    IN  /\ steps' = Append(steps, step)
                        /\ stop_reason' = RampStopReason(stats, prev_throughput, stop_reason)
                        /\ last_ok' = Adopt(ok, step, last_ok)
                        /\ IF ok
                           THEN RampStepAccepted(stats.throughput_bps)
                           ELSE RampStepRejected
       ELSE \* the records are full: the previous outcome again
            /\ result = returned[Len(returned)]
            /\ pc' = "loop"
            /\ UNCHANGED << current, steps, last_ok, stop_reason, prev_throughput,
                            fallback_attempted, issued, returned >>
    /\ UNCHANGED << config, aside >>

\* "Step down once if confirm failed": the fallback probe is issued when its
\* target is below last_ok's, otherwise the loop is left.
StepDownOrStop ==
    LET down == StepdownTarget(start_bps[1], last_ok[1].target_bps, step_bps[1])
    IN  IF StepdownAllowed(down, last_ok[1].target_bps)
        THEN /\ issued' = Append(issued, Probe(down, "fallback"))
             /\ pc' = "stepdown_probe"
        ELSE /\ pc' = "done"
             /\ UNCHANGED issued

\* The confirm probe returns.
ConfirmOutcome(result) ==
    /\ pc = "confirm_probe"
    /\ returned' = Append(returned, result)
    /\ IF result.error = None
       THEN LET stats == result.data[1]
                ok_confirm == ConfirmOk(stats, prev_throughput)
                confirm_step == MeasuredStep(last_ok[1].target_bps, "confirm", stats, ok_confirm)
            IN  /\ steps' = Append(steps, confirm_step)
                /\ last_ok' = Adopt(ok_confirm, confirm_step, last_ok)
                /\ IF ok_confirm
                   THEN /\ stop_reason' = ConfirmedReason(stop_reason)
                        /\ pc' = "done"
                        /\ UNCHANGED issued
                   ELSE /\ StepDownOrStop
                        /\ UNCHANGED stop_reason
       ELSE /\ StepDownOrStop
            /\ UNCHANGED << steps, last_ok, stop_reason >>
    /\ UNCHANGED << config, aside, current, prev_throughput, fallback_attempted >>

\* Variant: after the step-down the flag is cleared and the ramp resumes.
StepdownOutcomeResumes(result) ==
    /\ pc = "stepdown_probe"
    /\ returned' = Append(returned, result)
    /\ IF result.error = None
       THEN LET stats == result.data[1]
                ok_retry == RetryOk(stats, prev_throughput)
                retry_step == MeasuredStep(issued[Len(issued)].target_bps, "fallback",
                                           stats, ok_retry)
            IN  /\ steps' = Append(steps, retry_step)
                /\ last_ok' = Adopt(ok_retry, retry_step, last_ok)
                /\ stop_reason' = IF ok_retry THEN SteppedDownReason(stop_reason)
                                  ELSE stop_reason
       ELSE UNCHANGED << steps, last_ok, stop_reason >>
    /\ fallback_attempted' = FALSE
    /\ pc' = "loop"
    /\ UNCHANGED << config, aside, current, prev_throughput, issued >>

\* The fallback (step-down) probe returns; the loop is left in every case.
StepdownOutcome(result) ==
    /\ pc = "stepdown_probe"
    /\ returned' = Append(returned, result)
    /\ IF result.error = None
       THEN LET stats == result.data[1]
                ok_retry == RetryOk(stats, prev_throughput)
                retry_step == MeasuredStep(issued[Len(issued)].target_bps, "fallback",
                                           stats, ok_retry)
            IN  /\ steps' = Append(steps, retry_step)
                /\ last_ok' = Adopt(ok_retry, retry_step, last_ok)
                /\ stop_reason' = IF ok_retry THEN SteppedDownReason(stop_reason)
                                  ELSE stop_reason
       ELSE UNCHANGED << steps, last_ok, stop_reason >>
    /\ pc' = "done"
    /\ UNCHANGED << config, aside, current, prev_throughput, fallback_attempted, issued >>

Next ==
    \/ IssueNormal
    \/ RampExhausted
    \/ \E result \in ProbeResults : NormalOutcome(result)
    \/ \E result \in ProbeResults : ConfirmOutcome(result)
    \/ \E result \in ProbeResults : StepdownOutcome(result)

Spec == Init /\ [][Next]_vars

\* main() is one sequential pass and every run_iperf call returns (it is
\* bounded by its timeout), so a step that can be taken is taken.
FairSpec == Spec /\ WF_vars(Next)

(* ---------------- main() from its arguments to its output -------------- *)

\* The texts given as --start, --step and --max: whole numbers of bps with
\* and without blanks and with a unit letter, a negative number, and texts
\* parse_bps returns None for.
StartTexts == { "1", " 2 ", "2K", "", "  ", "k", " G ", "abc", "1.5x", "1.2.3" }
StepTexts == { "1", "-1", "", "m" }
MaxTexts == { "2", "-" }

\* --direction
Directions == { "uplink", "downlink" }

\* What json.loads(args.meta) gives: a JSON object, another JSON value (an
\* array, a number, null), or None where it raises.
JsonObject(fields) == [ kind |-> "object", fields |-> fields ]
JsonArray == [ kind |-> "array", fields |-> << >> ]

\* --direction and json.loads(args.meta), together: --meta that is not
\* JSON, two objects (the second with keys main() writes itself) and an
\* array.
MetaLoads ==
    { << "uplink", None >>,
      << "downlink", Some(JsonObject([ k \in { "site" } |-> "lab" ])) >>,
      << "uplink",
         Some(JsonObject([ k \in { "direction", "start_bps", "loss_threshold", "site" } |->
            CASE k = "direction" -> "sideways" [] k = "start_bps" -> 0
              [] k = "loss_threshold" -> 99 [] OTHER -> "lab" ])) >>,
      << "downlink", Some(JsonArray) >> }

\* A bandwidth parse_bps returned, as the whole number of bps the session
\* counts in.
Bps(parsed) ==
    IF parsed = None THEN None ELSE Some(parsed[1].coef * Pow10(parsed[1].exp))

\* main() is entered: the argument texts, the direction and --meta are given.
MainInit ==
    /\ \E a \in StartTexts, b \in StepTexts, c \in MaxTexts :
          args = Some([ start |-> a, step |-> b, max_bps |-> c ])
    /\ \E m \in MetaLoads :
          output = [ pc |-> "pending", direction |-> Some(m[1]), loaded |-> m[2],
                     meta |-> None, written |-> None ]
    /\ start_bps = None
    /\ step_bps = None
    /\ max_bps = None
    /\ current = None
    /\ steps = << >>
    /\ last_ok = None
    /\ stop_reason = "max_reached"
    /\ prev_throughput = None
    /\ fallback_attempted = FALSE
    /\ issued = << >>
    /\ returned = << >>
    /\ pc = "args"
    /\ codec = [ pc |-> "idle", bps |-> None, text |-> None, decoded |-> None ]
    /\ adapter = AdapterIdle

\* The three parse_bps calls, SystemExit when one of them returned None,
\* json.loads(args.meta) with {} in its place when it raises, and the locals
\* of the loop.
ParseArgs ==
    /\ pc = "args"
    /\ start_bps' = Bps(parse_bps(Some(args[1].start)))
    /\ step_bps' = Bps(parse_bps(Some(args[1].step)))
    /\ max_bps' = Bps(parse_bps(Some(args[1].max_bps)))
    /\ IF start_bps' = None \/ step_bps' = None \/ max_bps' = None
       THEN pc' = "invalid" /\ UNCHANGED output
       ELSE /\ pc' = "loop"
            /\ output' = [ output EXCEPT !.meta =
                             IF output.loaded = None
                             THEN Some(JsonObject(<< >>)) ELSE output.loaded ]
    /\ current' = start_bps'
    /\ UNCHANGED << steps, last_ok, stop_reason, prev_throughput, fallback_attempted,
                    issued, returned, codec, adapter, args >>

\* {**a, **b}: the keys of both, b's value where both have the key.
Merged(a, b) ==
    [ k \in DOMAIN a \cup DOMAIN b |-> IF k \in DOMAIN b THEN b[k] ELSE a[k] ]

\* The keys main() writes after **meta.
MetaWritten ==
    [ k \in { "tool", "protocol", "direction", "timestamp", "adaptive", "loss_threshold",
              "jitter_threshold", "drop_threshold", "start_bps", "step_bps", "max_bps" } |->
        CASE k = "tool" -> "iperf3"
          [] k = "protocol" -> "udp"
          [] k = "direction" -> output.direction[1]
          [] k = "timestamp" -> "now"
          [] k = "adaptive" -> TRUE
          [] k = "loss_threshold" -> loss_threshold
          [] k = "jitter_threshold" -> jitter_threshold
          [] k = "drop_threshold" -> drop_threshold
          [] k = "start_bps" -> start_bps[1]
          [] k = "step_bps" -> step_bps[1]
          [] OTHER -> max_bps[1] ]

\* After the loop: the output dict is built and written.  **meta raises
\* TypeError when meta is not a mapping, and nothing is written.
WriteOutput ==
    /\ pc = "done"
    /\ output.pc = "pending"
    /\ IF output.meta[1].kind = "object"
       THEN output' = [ output EXCEPT
                          !.pc = "written",
                          !.written = Some([ meta |-> Merged(output.meta[1].fields, MetaWritten),
                                             steps |-> steps,
                                             selected |-> last_ok,
                                             stop_reason |-> stop_reason ]) ]
       ELSE output' = [ output EXCEPT !.pc = "raised" ]
    /\ UNCHANGED << session, codec, adapter, args >>

MainNext ==
    \/ ParseArgs
    \/ IssueNormal
    \/ RampExhausted
    \/ \E result \in ProbeResults : NormalOutcome(result)
    \/ \E result \in ProbeResults : ConfirmOutcome(result)
    \/ \E result \in ProbeResults : StepdownOutcome(result)
    \/ WriteOutput

MainSpec == MainInit /\ [][MainNext]_vars

(* --------------------- the codec on its own ---------------------------- *)

\* A value about to be encoded and decoded again, or a text about to be
\* decoded; no session runs.
CodecInit ==
    /\ \/ \E x \in CodecValues :
            codec = [ pc |-> "encode", bps |-> Some(x), text |-> None, decoded |-> None ]
       \/ \E t \in CodecTexts :
            codec = [ pc |-> "decode", bps |-> None, text |-> t, decoded |-> None ]
    /\ start_bps = None
    /\ step_bps = None
    /\ max_bps = None
    /\ current = None
    /\ steps = << >>
    /\ last_ok = None
    /\ stop_reason = "max_reached"
    /\ prev_throughput = None
    /\ fallback_attempted = FALSE
    /\ issued = << >>
    /\ returned = << >>
    /\ pc = "codec"
    /\ adapter = AdapterIdle
    /\ output = OutputIdle
    /\ args = None

\* bw_str = bps_to_str(...)
Encode ==
    /\ codec.pc = "encode"
    /\ \E str \in bps_to_str(codec.bps[1]) :
          codec' = [ codec EXCEPT !.pc = "decode", !.text = Some(str) ]
    /\ UNCHANGED << session, adapter, output, args >>

\* parse_bps(...)
Decode ==
    /\ codec.pc = "decode"
    /\ codec' = [ codec EXCEPT !.pc = "done", !.decoded = parse_bps(codec.text) ]
    /\ UNCHANGED << session, adapter, output, args >>

CodecNext ==
    \/ Encode
    \/ Decode

CodecSpec == CodecInit /\ [][CodecNext]_vars

(* ------------------- one run_iperf call on its own --------------------- *)

\* The exit codes the tool is followed with: success, two failures, and the
\* negative code of a process ended by a signal.
ReturnCodes == { -9, 0, 1, 2 }

\* What the tool wrote on stdout: a JSON document, given by the statistics
\* extract_udp_stats finds in it, or None for a text json.loads rejects.
Stdouts == { Some(m) : m \in Measurements } \cup { None }

\* cmd: the fixed arguments, and "-R" for the downlink
Command(direction) ==
    LET cmd == << "iperf3", "-c", "-p", "-t", "-P", "-J", "-u", "-b" >>
    IN  IF direction = "downlink" THEN Append(cmd, "-R") ELSE cmd

\* f"exit_{completed.returncode}"
ExitError(returncode) ==
    "exit_" \o (IF returncode < 0 THEN "-" \o IntToStr(-returncode) ELSE IntToStr(returncode))

\* Variant: the output is parsed before the exit code is looked at.
CompletedResultParsesFirst(completed) ==
    IF completed.stdout = None
    THEN [ error |-> Some("json_parse"), data |-> None ]
    ELSE IF completed.returncode # 0
    THEN [ error |-> Some(ExitError(completed.returncode)), data |-> None ]
    ELSE [ error |-> None, data |-> completed.stdout ]

\* What run_iperf returns once subprocess.run has completed: the exit code
\* is tested first, then the output is parsed.
CompletedResult(completed) ==
    IF completed.returncode # 0
    THEN [ error |-> Some(ExitError(completed.returncode)), data |-> None ]
    ELSE IF completed.stdout = None
    THEN [ error |-> Some("json_parse"), data |-> None ]
    ELSE [ error |-> None, data |-> completed.stdout ]

\* A call of run_iperf about to build its command; no session runs.
AdapterInit ==
    /\ \E d \in Directions :
          adapter = [ pc |-> "call", direction |-> Some(d), cmd |-> << >>, executions |-> 0,
                      completed |-> None, result |-> None ]
    /\ start_bps = None
    /\ step_bps = None
    /\ max_bps = None
    /\ current = None
    /\ steps = << >>
    /\ last_ok = None
    /\ stop_reason = "max_reached"
    /\ prev_throughput = None
    /\ fallback_attempted = FALSE
    /\ issued = << >>
    /\ returned = << >>
    /\ pc = "adapter"
    /\ codec = [ pc |-> "idle", bps |-> None, text |-> None, decoded |-> None ]
    /\ output = OutputIdle
    /\ args = None

\* subprocess.run raises TimeoutExpired: run_iperf returns the timeout error.
RunTimesOut ==
    /\ adapter.pc = "call"
    /\ adapter' = [ adapter EXCEPT !.pc = "returned",
                                   !.cmd = Command(adapter.direction[1]),
                                   !.executions = @ + 1,
                                   !.result = Some([ error |-> Some("timeout"), data |-> None ]) ]
    /\ UNCHANGED << session, codec, output, args >>

\* subprocess.run returns within the timeout (check=False: whatever the code).
RunCompletes(returncode, stdout) ==
    /\ adapter.pc = "call"
    /\ adapter' = [ adapter EXCEPT !.pc = "completed",
                                   !.cmd = Command(adapter.direction[1]),
                                   !.executions = @ + 1,
                                   !.completed = Some([ returncode |-> returncode,
                                                        stdout |-> stdout ]) ]
    /\ UNCHANGED << session, codec, output, args >>

\* The rest of run_iperf.
ReturnResult ==
    /\ adapter.pc = "completed"
    /\ adapter' = [ adapter EXCEPT !.pc = "returned",
                                   !.result = Some(CompletedResult(adapter.completed[1])) ]
    /\ UNCHANGED << session, codec, output, args >>

AdapterNext ==
    \/ RunTimesOut
    \/ \E returncode \in ReturnCodes, stdout \in Stdouts : RunCompletes(returncode, stdout)
    \/ ReturnResult

AdapterSpec == AdapterInit /\ [][AdapterNext]_vars

(* ====================== properties of a session ======================== *)

StepIndexes == 1 .. Len(steps)
ProbeIndexes == 1 .. Len(issued)

IsNormal(s) == s.role = "normal"
IsConfirm(s) == s.role = "confirm"
IsFallback(s) == s.role = "fallback"

\* The steps (or probes) of one role, in order.
NormalSteps == SelectSeq(steps, IsNormal)
ConfirmSteps == SelectSeq(steps, IsConfirm)
FallbackSteps == SelectSeq(steps, IsFallback)
ConfirmProbes == SelectSeq(issued, IsConfirm)
FallbackProbes == SelectSeq(issued, IsFallback)

\* The last step of a sequence with ok = true, or None.
RECURSIVE LastAccepted(_)
LastAccepted(seq) ==
    IF seq = << >> THEN None
    ELSE IF seq[Len(seq)].ok THEN Some(seq[Len(seq)])
    ELSE LastAccepted(SubSeq(seq, 1, Len(seq) - 1))

\* The throughput of the last accepted normal step of a sequence that
\* reported one, or None.
RECURSIVE BaselineOf(_)
BaselineOf(seq) ==
    IF seq = << >> THEN None
    ELSE LET s == seq[Len(seq)]
         IN  IF s.ok /\ IsNormal(s) /\ s.throughput_bps # None THEN s.throughput_bps
             ELSE BaselineOf(SubSeq(seq, 1, Len(seq) - 1))

\* The threshold reasons whose check step i violates, judged against the
\* steps before it.
ViolatedReasons(i) ==
    { r \in { "loss_threshold", "jitter_threshold", "throughput_drop" } :
        \/ r = "loss_threshold" /\ LossExceeded(steps[i].loss_percent)
        \/ r = "jitter_threshold" /\ JitterExceeded(steps[i].jitter_ms)
        \/ r = "throughput_drop"
             /\ ThroughputDropped(BaselineOf(SubSeq(steps, 1, i - 1)), steps[i].throughput_bps) }

\* Step i is a measured ramp step that a threshold rejected after an earlier
\* step was accepted.
RejectedAfterAccepted(i) ==
    /\ IsNormal(steps[i])
    /\ steps[i].error = None
    /\ ~steps[i].ok
    /\ \E j \in 1 .. i - 1 : steps[j].ok

Finished == pc = "done"

(* C1: in every reachable state last_ok (the final "selected") is either   *)
(* absent or a recorded step with ok = true, of the same target and role;  *)
(* when it is absent no recorded step has ok = true.                       *)
C1_SelectedIsAcceptedStep ==
    /\ last_ok # None =>
         \E i \in StepIndexes :
            /\ steps[i].ok
            /\ steps[i].target_bps = last_ok[1].target_bps
            /\ steps[i].role = last_ok[1].role
            /\ steps[i] = last_ok[1]
    /\ last_ok = None => \A i \in StepIndexes : ~steps[i].ok

C1_Witness ==
    /\ Finished
    /\ selected # None
    /\ IsFallback(selected[1])
    /\ \E i \in StepIndexes : ~steps[i].ok

(* C2: a session whose three bandwidths parse always reaches the end of    *)
(* main() and writes its result.                                           *)
C2_SessionTerminates == (pc # "invalid") => <>Finished

(* C3: a Failed ramp probe is recorded with its error and ok = false, is   *)
(* the last step and the last probe, makes stop_reason its error, ends the *)
(* session and leaves selected at the step accepted last before it (absent *)
(* when the first probe fails, and then steps has one entry).              *)
C3_FailedRampProbeIsFatal ==
    \A i \in StepIndexes :
        (IsNormal(steps[i]) /\ returned[i].error # None) =>
            /\ steps[i].error = returned[i].error
            /\ ~steps[i].ok
            /\ Finished
            /\ Len(steps) = i
            /\ Len(issued) = i
            /\ \A k \in ProbeIndexes : IsNormal(issued[k])
            /\ stop_reason = returned[i].error[1]
            /\ selected = LastAccepted(SubSeq(steps, 1, i - 1))
            /\ (i = 1 => selected = None /\ Len(steps) = 1)

C3_Witness ==
    /\ Finished
    /\ Len(steps) = 3
    /\ steps[3].error = Some("timeout")
    /\ selected = Some(steps[2])

C3_WitnessFirstProbeFails ==
    /\ Finished
    /\ Len(steps) = 1
    /\ steps[1].error = Some("timeout")
    /\ stop_reason = "timeout"
    /\ selected = None

(* C4: a Failed outcome is fatal in every phase: when the confirm probe    *)
(* returns an error the session is over, no probe follows it and           *)
(* stop_reason is that error; when the fallback probe returns an error     *)
(* stop_reason is that error.                                              *)
C4_FailedConfirmOrStepdownIsFatal ==
    \A k \in 1 .. Len(returned) :
        (returned[k].error # None) =>
            /\ IsConfirm(issued[k]) =>
                 /\ Finished
                 /\ Len(issued) = k
                 /\ stop_reason = returned[k].error[1]
            /\ IsFallback(issued[k]) => stop_reason = returned[k].error[1]

(* C5: every probe issued is one entry of steps, in issuance order: the    *)
(* i-th step describes the i-th probe, and once the session is over there  *)
(* are as many steps as probes.                                            *)
C5_EveryProbeIsRecorded ==
    /\ Len(steps) <= Len(issued)
    /\ \A i \in StepIndexes :
         /\ steps[i].target_bps = issued[i].target_bps
         /\ steps[i].role = issued[i].role
    /\ Finished => Len(steps) = Len(issued)

(* C6: steps holds at most one confirm step and at most one fallback step, *)
(* and the confirm / step-down protocol is entered at most once: at most   *)
(* one confirm probe and one fallback probe are ever issued.               *)
C6_AtMostOneConfirmAndFallback ==
    /\ Len(ConfirmSteps) <= 1
    /\ Len(FallbackSteps) <= 1
    /\ Len(ConfirmProbes) <= 1
    /\ Len(FallbackProbes) <= 1

C6_Witness ==
    /\ Finished
    /\ Len(ConfirmSteps) = 1
    /\ Len(FallbackSteps) = 1

(* C7: the first normal step is probed at start, and of two consecutive    *)
(* normal steps the later target is the earlier one plus the step and      *)
(* strictly greater.                                                       *)
C7_RampStrictlyIncreasesByStep ==
    /\ NormalSteps # << >> => NormalSteps[1].target_bps = start_bps[1]
    /\ \A i \in 1 .. Len(NormalSteps) - 1 :
         /\ NormalSteps[i + 1].target_bps = NormalSteps[i].target_bps + step_bps[1]
         /\ NormalSteps[i + 1].target_bps > NormalSteps[i].target_bps

(* C8: when every ramp probe is accepted the finished session has          *)
(* stop_reason "max_reached", no confirm or fallback probe or step, and    *)
(* selected is the last ramp step, the highest target of the ramp within   *)
(* max + 1; the ramp 2, 4, 6, 8, 10 gives five steps and selects 10.       *)
C8_AllAcceptedEndsAtMax ==
    (Finished /\ steps # << >> /\ \A i \in StepIndexes : IsNormal(steps[i]) => steps[i].ok) =>
        /\ stop_reason = "max_reached"
        /\ \A i \in StepIndexes : IsNormal(steps[i])
        /\ \A k \in ProbeIndexes : IsNormal(issued[k])
        /\ selected = Some(steps[Len(steps)])
        /\ \A i \in StepIndexes : steps[i].target_bps <= selected[1].target_bps
        /\ selected[1].target_bps <= max_bps[1] + 1
        /\ selected[1].target_bps + step_bps[1] > max_bps[1] + 1
        /\ config = << Some(2), Some(2), Some(10) >> =>
             /\ Len(steps) = 5
             /\ selected[1].target_bps = 10

C8_Witness ==
    /\ Finished
    /\ config = << Some(2), Some(2), Some(10) >>
    /\ Len(steps) = 5
    /\ \A i \in StepIndexes : steps[i].ok
    /\ stop_reason = "max_reached"
    /\ selected[1].target_bps = 10

Larger(a, b) == IF a >= b THEN a ELSE b

ConfirmReturned == Len(ConfirmProbes) = 1 /\ pc # "confirm_probe"
ConfirmAccepted == \E i \in StepIndexes : IsConfirm(steps[i]) /\ steps[i].ok
StepdownReturned == Len(FallbackProbes) = 1 /\ pc # "stepdown_probe"

C10_AcceptedConfirmIsSelected ==
    \A i \in StepIndexes :
        (RejectedAfterAccepted(i) /\ i < Len(steps) /\ IsConfirm(steps[i + 1]) /\ steps[i + 1].ok) =>
            /\ Finished
            /\ Len(FallbackProbes) = 0
            /\ Len(steps) = i + 1
            /\ Len(issued) = i + 1
            /\ selected = Some(steps[i + 1])
            /\ selected[1].role = "confirm"
            /\ selected[1].target_bps = LastAccepted(SubSeq(steps, 1, i - 1))[1].target_bps
            /\ \E r \in ViolatedReasons(i) : stop_reason = r \o "_fallback_confirmed"

\* Steps 2 and 4 accepted, 6 rejected for its loss, the confirm at 4 passes.
C10_Witness ==
    /\ Finished
    /\ config = << Some(2), Some(2), Some(10) >>
    /\ Len(steps) = 4
    /\ steps[1].ok /\ steps[2].ok
    /\ steps[3].target_bps = 6 /\ ~steps[3].ok /\ LossExceeded(steps[3].loss_percent)
    /\ IsConfirm(steps[4]) /\ steps[4].ok
    /\ stop_reason = "loss_threshold_fallback_confirmed"
    /\ selected[1].target_bps = 4
    /\ selected[1].role = "confirm"

(* C11: when the confirm probe that follows a rejected ramp step is not     *)
(* accepted and the step-down probe, at max(start, L - step) strictly below *)
(* the last accepted target L, is accepted, the session is over, selected   *)
(* is that fallback step at the lower target and stop_reason is the reason  *)
(* of a check the rejected step violated followed by "_fallback_stepdown".  *)
C11_AcceptedStepdownIsSelected ==
    \A i \in StepIndexes :
        (/\ RejectedAfterAccepted(i)
         /\ ConfirmReturned
         /\ ~ConfirmAccepted
         /\ \E j \in StepIndexes : IsFallback(steps[j]) /\ steps[j].ok) =>
            LET L == LastAccepted(SubSeq(steps, 1, i - 1))[1].target_bps
                down == Larger(start_bps[1], L - step_bps[1])
            IN  /\ Finished
                /\ down < L
                /\ selected = Some(steps[Len(steps)])
                /\ selected[1].role = "fallback"
                /\ selected[1].ok
                /\ selected[1].target_bps = down
                /\ \E r \in ViolatedReasons(i) : stop_reason = r \o "_fallback_stepdown"

\* Steps 2 and 4 accepted, 6 and the confirm at 4 rejected for their loss,
\* the fallback probe at 2 passes.
C11_Witness ==
    /\ Finished
    /\ config = << Some(2), Some(2), Some(10) >>
    /\ Len(steps) = 5
    /\ steps[1].ok /\ steps[2].ok
    /\ steps[3].target_bps = 6 /\ ~steps[3].ok /\ LossExceeded(steps[3].loss_percent)
    /\ IsConfirm(steps[4]) /\ steps[4].target_bps = 4
    /\ ~steps[4].ok /\ LossExceeded(steps[4].loss_percent)
    /\ IsFallback(steps[5]) /\ steps[5].ok
    /\ stop_reason = "loss_threshold_fallback_stepdown"
    /\ selected[1].target_bps = 2
    /\ selected[1].role = "fallback"

ThresholdReasons == { "loss_threshold", "jitter_threshold", "throughput_drop" }
FallbackSuffixes == { "_fallback_confirmed", "_fallback_stepdown" }

\* A reason of the set, alone or followed by one of the two suffixes.
WithOptionalSuffix(reasons) ==
    reasons \cup { r \o sfx : r \in reasons, sfx \in FallbackSuffixes }

\* The ramp probe that failed, if the session ended on one.
FailedRampError ==
    IF steps # << >> /\ steps[Len(steps)].error # None
    THEN steps[Len(steps)].error ELSE None

C13_AcceptedIffNoThresholdViolated ==
    \A i \in StepIndexes :
        steps[i].error = None =>
            LET s == steps[i]
                baseline == BaselineOf(SubSeq(steps, 1, i - 1))
                lossBad == s.loss_percent # None /\ s.loss_percent[1] > loss_threshold
                jitterBad == s.jitter_ms # None /\ s.jitter_ms[1] > jitter_threshold
                dropBad == /\ baseline # None
                           /\ s.throughput_bps # None
                           /\ s.throughput_bps[1] * 100 < baseline[1] * (100 - drop_threshold)
            IN  s.ok <=> ~(lossBad \/ jitterBad \/ dropBad)

\* A ramp step with loss and jitter equal to their thresholds is accepted,
\* the confirm is rejected for its throughput alone, and the fallback step,
\* without jitter and with exactly 95 % of the baseline, is accepted.
C13_Witness ==
    /\ Finished
    /\ Len(steps) = 5
    /\ steps[2].ok
    /\ steps[2].loss_percent = Some(loss_threshold)
    /\ steps[2].jitter_ms = Some(jitter_threshold)
    /\ steps[2].throughput_bps = Some(100)
    /\ ~steps[3].ok
    /\ IsConfirm(steps[4]) /\ ~steps[4].ok
    /\ steps[4].loss_percent = None /\ steps[4].throughput_bps = Some(94)
    /\ IsFallback(steps[5]) /\ steps[5].ok
    /\ steps[5].jitter_ms = None /\ steps[5].throughput_bps = Some(95)

\* max = start + k * step for some k >= 0
MaxIsOnTheRamp ==
    LET distance == max_bps[1] - start_bps[1]
    IN  IF step_bps[1] = 0 THEN distance = 0
        ELSE IF step_bps[1] > 0 THEN distance >= 0 /\ distance % step_bps[1] = 0
        ELSE distance <= 0 /\ (-distance) % (-step_bps[1]) = 0

(* C14: when max is start plus a whole number of steps and every ramp step  *)
(* with a target below max was accepted, a finished session has issued a    *)
(* normal probe whose target is exactly max.                                *)
C14_ReachableMaxIsProbed ==
    (/\ Finished
     /\ MaxIsOnTheRamp
     /\ \A i \in StepIndexes :
           (IsNormal(steps[i]) /\ steps[i].target_bps < max_bps[1]) => steps[i].ok) =>
        \E k \in ProbeIndexes : issued[k] = Probe(max_bps[1], "normal")

(* ======================= properties of the codec ======================= *)

RoundTripDone == codec.pc = "done" /\ codec.bps # None

\* The power of ten of the unit letter a text ends with, 0 without one.
UnitExp(text) ==
    LET c == CharAt(text, Len(text))
    IN  CASE c = "G" -> 9 [] c = "M" -> 6 [] c = "K" -> 3 [] OTHER -> 0

Smaller(a, b) == IF a <= b THEN a ELSE b

\* |a - b| <= tol, for three decimals
Within(a, b, tol) ==
    LET e == Smaller(a.exp, Smaller(b.exp, tol.exp))
        diff == a.coef * Pow10(a.exp - e) - b.coef * Pow10(b.exp - e)
    IN  (IF diff < 0 THEN -diff ELSE diff) <= tol.coef * Pow10(tol.exp - e)

(* C15: for every non-negative value x, among them 2_000_000_000,           *)
(* 1_500_000, 1_500 and 250, parse_bps(bps_to_str(x)) is not None and       *)
(* differs from x by at most half of the third decimal of the unit that     *)
(* bps_to_str chose (G, M, K, or 1 bps without a letter).                   *)
C15_RoundTripWithinThreeDecimals ==
    RoundTripDone =>
        /\ codec.decoded # None
        /\ Within(codec.bps[1], codec.decoded[1], Dec(5, UnitExp(codec.text[1]) - 4))

(* C15, amended: as above for a text with a unit letter; a text without     *)
(* one is a whole number of bps and differs from x by at most 0.5 bps.      *)
C15_RoundTripWithinPrintedDigits ==
    RoundTripDone =>
        /\ codec.decoded # None
        /\ Within(codec.bps[1], codec.decoded[1],
                  IF UnitExp(codec.text[1]) > 0
                  THEN Dec(5, UnitExp(codec.text[1]) - 4) ELSE Dec(5, -1))

\* 1234567 bps is printed as "1.235M" and read back as 1235000; 250.4 bps
\* would be printed as "250".
C15_Witness ==
    /\ RoundTripDone
    /\ codec.bps = Some(Dec(1234567, 0))
    /\ codec.text = Some("1.235M")
    /\ codec.decoded = Some(Dec(1235, 3))

(* C17: prev_throughput, the drop baseline, is in every state the           *)
(* throughput of the most recent accepted normal step that reported one,    *)
(* and absent when there is none: a rejected step does not change it and an *)
(* accepted step without a throughput leaves it as it was.                  *)
C17_BaselineIsLastAcceptedThroughput ==
    prev_throughput = BaselineOf(steps)

\* An accepted step with throughput 100, an accepted step without a
\* throughput, a rejected step with a throughput: the baseline is still 100.
C17_Witness ==
    /\ Len(steps) >= 3
    /\ steps[1].ok /\ steps[1].throughput_bps = Some(100)
    /\ steps[2].ok /\ IsNormal(steps[2]) /\ steps[2].throughput_bps = None
    /\ ~steps[3].ok /\ steps[3].throughput_bps = Some(94)
    /\ prev_throughput = Some(100)

(* C18: the confirm and the fallback probe leave prev_throughput as it is,  *)
(* and a measured confirm or fallback step whose throughput is below the    *)
(* throughput of the last accepted normal step times                        *)
(* (1 - drop_threshold / 100) is rejected, whatever its loss and jitter.    *)
C18_FallbackKeepsAndUsesBaseline ==
    /\ [][(pc \in { "confirm_probe", "stepdown_probe" }) => (prev_throughput' = prev_throughput)]_vars
    /\ [](\A i \in StepIndexes :
            (/\ ~IsNormal(steps[i])
             /\ steps[i].error = None
             /\ ThroughputDropped(BaselineOf(NormalSteps), steps[i].throughput_bps)) =>
                ~steps[i].ok)

\* The baseline is 100; the fallback step has no loss, a jitter equal to
\* its threshold and a throughput of 94, and is rejected.
C18_Witness ==
    /\ Finished
    /\ Len(steps) = 5
    /\ IsFallback(steps[5])
    /\ steps[5].loss_percent = None
    /\ steps[5].jitter_ms = Some(jitter_threshold)
    /\ steps[5].throughput_bps = Some(94)
    /\ ~steps[5].ok
    /\ prev_throughput = Some(100)
    /\ selected = Some(steps[2])

(* C19: stop_reason is assigned once, by the step that leaves the loop: it  *)
(* keeps its initial "max_reached" until the session is over, and a         *)
(* stop_reason that was assigned does not change again.                     *)
C19_StopReasonAssignedOnceAtExit ==
    /\ [](~Finished => stop_reason = "max_reached")
    /\ [][(stop_reason' # stop_reason) => (stop_reason = "max_reached" /\ pc' = "done")]_vars

(* C19, amended: stop_reason is "max_reached" from the start; the failed or *)
(* rejected ramp step assigns it, also when a confirm probe follows; after  *)
(* that it changes at most once more, when the accepted confirm or fallback *)
(* step that ends the session appends its suffix.                           *)
C19_StopReasonAssignedThenSuffixed ==
    [][(stop_reason' # stop_reason) =>
          \/ /\ pc = "ramp_probe"
             /\ stop_reason = "max_reached"
             /\ stop_reason' \in ThresholdReasons \cup Errors
          \/ /\ pc = "confirm_probe"
             /\ stop_reason \in ThresholdReasons
             /\ stop_reason' = stop_reason \o "_fallback_confirmed"
             /\ pc' = "done"
          \/ /\ pc = "stepdown_probe"
             /\ stop_reason \in ThresholdReasons
             /\ stop_reason' = stop_reason \o "_fallback_stepdown"
             /\ pc' = "done"]_vars

\* The rejected ramp step has assigned "throughput_drop" and the accepted
\* confirm has appended its suffix.
C19_Witness ==
    /\ Finished
    /\ stop_reason = "throughput_drop_fallback_confirmed"
    /\ IsConfirm(steps[Len(steps)])

\* The reason of the first check that step i violates, in the order loss,
\* jitter, drop.
FirstViolated(i) ==
    IF "loss_threshold" \in ViolatedReasons(i) THEN "loss_threshold"
    ELSE IF "jitter_threshold" \in ViolatedReasons(i) THEN "jitter_threshold"
    ELSE "throughput_drop"

(* C20: when the rejected ramp step that starts the fallback violates more  *)
(* than one threshold, the stop reason (before any suffix) names the first  *)
(* violated check in the order loss, jitter, throughput drop: loss and      *)
(* jitter both exceeded give loss_threshold.                                *)
C20_FirstViolatedCheckIsReported ==
    \A i \in StepIndexes :
        (RejectedAfterAccepted(i) /\ Cardinality(ViolatedReasons(i)) > 1) =>
            stop_reason \in WithOptionalSuffix({ FirstViolated(i) })

\* The text ends with the suffix.
EndsWith(text, sfx) ==
    /\ Len(text) >= Len(sfx)
    /\ SubSeq(text, Len(text) - Len(sfx) + 1, Len(text)) = sfx

InFallbackPhase == pc \in { "confirm_probe", "stepdown_probe" }

(* C21: the confirm and the fallback probe leave the threshold reason of    *)
(* stop_reason as the rejected ramp step set it, they can only append their *)
(* suffix; stop_reason ends with _fallback_confirmed exactly when selected  *)
(* is a confirm step, with _fallback_stepdown exactly when selected is a    *)
(* fallback step, and has no suffix exactly when selected is a normal step  *)
(* or absent.                                                               *)
C21_SuffixTellsTheRoleOfSelected ==
    /\ [][InFallbackPhase =>
             (stop_reason' \in { stop_reason, stop_reason \o "_fallback_confirmed",
                                 stop_reason \o "_fallback_stepdown" })]_vars
    /\ [](/\ EndsWith(stop_reason, "_fallback_confirmed")
              <=> (selected # None /\ IsConfirm(selected[1]))
          /\ EndsWith(stop_reason, "_fallback_stepdown")
              <=> (selected # None /\ IsFallback(selected[1]))
          /\ (\A sfx \in FallbackSuffixes : ~EndsWith(stop_reason, sfx))
              <=> (selected = None \/ IsNormal(selected[1])))

\* The ramp step was rejected for its jitter, the confirm for its loss, and
\* the accepted fallback step is selected.
C21_Witness ==
    /\ Finished
    /\ stop_reason = "jitter_threshold_fallback_stepdown"
    /\ \E i \in StepIndexes : IsConfirm(steps[i]) /\ LossExceeded(steps[i].loss_percent)
    /\ IsFallback(selected[1])

\* No fallback step was accepted.
StepdownNotAccepted == \A j \in StepIndexes : IsFallback(steps[j]) => ~steps[j].ok

(* C22: when neither the confirm probe nor the step-down probe is accepted, *)
(* the finished session has selected still the ramp step accepted last      *)
(* before the rejected one, of role normal, and stop_reason is the reason   *)
(* of a check the rejected step violated, without a suffix.                 *)
C22_FallbackExhaustedKeepsSelected ==
    \A i \in StepIndexes :
        (/\ Finished
         /\ RejectedAfterAccepted(i)
         /\ ~ConfirmAccepted
         /\ StepdownNotAccepted) =>
            /\ selected = LastAccepted(SubSeq(steps, 1, i - 1))
            /\ IsNormal(selected[1])
            /\ selected[1].target_bps = steps[i].target_bps - step_bps[1]
            /\ stop_reason \in ViolatedReasons(i)

\* 2 and 4 accepted, 6 rejected, the confirm at 4 and the fallback step at 2
\* rejected as well: selected is the ramp step at 4.
C22_Witness ==
    /\ Finished
    /\ Len(steps) = 5
    /\ IsConfirm(steps[4]) /\ ~steps[4].ok
    /\ IsFallback(steps[5]) /\ ~steps[5].ok
    /\ selected = Some(steps[2])
    /\ stop_reason = "loss_threshold"

(* C23: when the first ramp step is measured and rejected by a threshold,   *)
(* the session is finished at once: no confirm or step-down probe is ever   *)
(* issued, steps has exactly that one entry, selected is absent and         *)
(* stop_reason is the bare reason of a check the step violated.             *)
C23_FirstStepRejectedEndsSession ==
    (/\ steps # << >>
     /\ steps[1].error = None
     /\ ~steps[1].ok) =>
        /\ Finished
        /\ Len(steps) = 1
        /\ IsNormal(steps[1])
        /\ issued = << Probe(start_bps[1], "normal") >>
        /\ ~fallback_attempted
        /\ selected = None
        /\ stop_reason \in ViolatedReasons(1)

\* With no baseline yet, only loss or jitter can reject the first step.
C23_Witness ==
    /\ Finished
    /\ Len(steps) = 1
    /\ steps[1].error = None
    /\ JitterExceeded(steps[1].jitter_ms)
    /\ ~LossExceeded(steps[1].loss_percent)
    /\ stop_reason = "jitter_threshold"
    /\ selected = None

\* Sequence a is an initial part of sequence b.
IsPrefix(a, b) == Len(a) <= Len(b) /\ SubSeq(b, 1, Len(a)) = a

(* C24: steps is append-only: across every transition the previous value of *)
(* steps is a prefix of the new value (no entry is removed, reordered or    *)
(* rewritten).                                                              *)
C24_StepsAppendOnly == [][IsPrefix(steps, steps')]_vars

\* The record grew through all three roles: ramp steps, the confirm step and
\* the fallback step, each appended behind the others.
C24_Witness ==
    /\ Finished
    /\ Len(steps) >= 4
    /\ IsNormal(steps[1]) /\ steps[1].ok
    /\ IsConfirm(steps[Len(steps) - 1])
    /\ IsFallback(steps[Len(steps)])

\* Some recorded ramp step was not accepted (rejected, or its probe failed).
RampStopped == \E i \in StepIndexes : IsNormal(steps[i]) /\ ~steps[i].ok

\* The ramp probe failed to run: the failed step is recorded.
RampFailed == \E i \in StepIndexes : IsNormal(steps[i]) /\ steps[i].error # None

\* The events after which the claim lets no probe follow.
SessionOver == Finished \/ ConfirmAccepted \/ StepdownReturned \/ RampFailed

\* The transition issues a probe of the given role.
Issues(role) == issued' # issued /\ issued'[Len(issued')].role = role

RoleRank(s) == IF IsNormal(s) THEN 1 ELSE IF IsConfirm(s) THEN 2 ELSE 3

(* C26: the recorded steps are zero or more normal steps, then at most one  *)
(* confirm step, then at most one fallback step; a confirm step comes       *)
(* immediately after a rejected normal step that an accepted normal step    *)
(* precedes, and a fallback step is the last entry and comes immediately    *)
(* after a confirm step with ok = false.                                    *)
C26_StepsHaveFallbackShape ==
    /\ \A i, j \in StepIndexes : i < j => RoleRank(steps[i]) <= RoleRank(steps[j])
    /\ Len(ConfirmSteps) <= 1
    /\ Len(FallbackSteps) <= 1
    /\ \A i \in StepIndexes : IsConfirm(steps[i]) =>
          /\ i >= 3
          /\ IsNormal(steps[i - 1]) /\ ~steps[i - 1].ok
          /\ IsNormal(steps[i - 2]) /\ steps[i - 2].ok
    /\ \A i \in StepIndexes : IsFallback(steps[i]) =>
          /\ i = Len(steps)
          /\ i >= 2
          /\ IsConfirm(steps[i - 1]) /\ ~steps[i - 1].ok

\* The last step of the ramp (role normal) that was accepted, or None.
LastAcceptedNormal == LastAccepted(NormalSteps)

(* C27: a step-down probe is issued at exactly max(start, L - step), where  *)
(* L is the target of the last accepted step; that target is strictly below *)
(* L and not below start; when max(start, L - step) is not strictly below L *)
(* no step-down probe is issued and the session ends with selected as the   *)
(* ramp left it and without a suffix.                                       *)
C27_StepdownTargetIsClampedAndLower ==
    /\ \A k \in ProbeIndexes : IsFallback(issued[k]) =>
          LET L == LastAcceptedNormal[1].target_bps
          IN  /\ LastAcceptedNormal # None
              /\ issued[k].target_bps = Larger(start_bps[1], L - step_bps[1])
              /\ issued[k].target_bps < L
              /\ issued[k].target_bps >= start_bps[1]
    /\ (/\ Finished
        /\ ConfirmReturned
        /\ ~ConfirmAccepted
        /\ ~(Larger(start_bps[1], LastAcceptedNormal[1].target_bps - step_bps[1])
               < LastAcceptedNormal[1].target_bps)) =>
          /\ FallbackProbes = << >>
          /\ FallbackSteps = << >>
          /\ selected = LastAcceptedNormal
          /\ \A sfx \in FallbackSuffixes : ~EndsWith(stop_reason, sfx)

\* Three ramp steps accepted, the fourth rejected, the confirm at the third
\* target not accepted: the step-down probe is at the second target.
C27_Witness ==
    /\ Finished
    /\ Len(NormalSteps) = 4
    /\ LastAcceptedNormal # None
    /\ LastAcceptedNormal[1].target_bps = start_bps[1] + 2 * step_bps[1]
    /\ step_bps[1] > 0
    /\ FallbackProbes # << >>
    /\ FallbackProbes[1].target_bps = start_bps[1] + step_bps[1]

\* The targets of the accepted ramp steps.
AcceptedNormalTargets ==
    { steps[i].target_bps : i \in { j \in StepIndexes : IsNormal(steps[j]) /\ steps[j].ok } }

(* C28: with a positive step every probe, of any role, has its target in    *)
(* the closed range from start to max + 1; a confirm or fallback probe is   *)
(* never below start nor above the highest target of an accepted ramp step. *)
C28_ProbeTargetsInRange ==
    (step_bps # None /\ step_bps[1] > 0) =>
        \A k \in ProbeIndexes :
            /\ issued[k].target_bps >= start_bps[1]
            /\ issued[k].target_bps <= max_bps[1] + 1
            /\ ~IsNormal(issued[k]) =>
                  \E t \in AcceptedNormalTargets :
                      /\ \A u \in AcceptedNormalTargets : u <= t
                      /\ issued[k].target_bps <= t

\* A ramp probe at max + 1 was issued and rejected, the confirm at max and
\* the fallback probe below it followed.
C28_Witness ==
    /\ step_bps # None /\ step_bps[1] > 0
    /\ \E k \in ProbeIndexes : IsNormal(issued[k]) /\ issued[k].target_bps = max_bps[1] + 1
    /\ \E k \in ProbeIndexes : IsConfirm(issued[k]) /\ issued[k].target_bps = max_bps[1]
    /\ \E k \in ProbeIndexes : IsFallback(issued[k]) /\ issued[k].target_bps < max_bps[1]

\* Every recorded step is an accepted step of the ramp.
OnlyAcceptedRampSteps == \A i \in StepIndexes : IsNormal(steps[i]) /\ steps[i].ok

(* C29: the final stop_reason is "max_reached" exactly when every recorded  *)
(* step is an accepted normal step, that is when the loop ended at its head *)
(* with no rejection and no failure; when start is above max + 1 no probe   *)
(* is issued, steps is empty, selected is absent and the reason is          *)
(* "max_reached".                                                           *)
C29_MaxReachedIffRampRanOut ==
    /\ Finished =>
          /\ stop_reason = "max_reached" <=> OnlyAcceptedRampSteps
          /\ stop_reason = "max_reached" =>
                /\ ~RampContinues(current[1], max_bps[1])
                /\ Len(issued) = Len(steps)
                /\ selected = LastAccepted(steps)
    /\ (pc # "invalid" /\ start_bps[1] > max_bps[1] + 1) =>
          /\ issued = << >>
          /\ steps = << >>
          /\ selected = None
          /\ stop_reason = "max_reached"

\* The ramp ran from start past max with every step accepted.
C29_Witness ==
    /\ Finished
    /\ stop_reason = "max_reached"
    /\ Len(steps) >= 3
    /\ OnlyAcceptedRampSteps
    /\ current[1] > max_bps[1] + 1

\* The probes of the ramp, in order.
NormalProbes == SelectSeq(issued, IsNormal)

\* step > 0 and start <= max, for bandwidths that parsed.
PositiveStepRamp == pc # "invalid" /\ step_bps[1] > 0 /\ start_bps[1] <= max_bps[1]

\* floor((max + 1 - start) / step) + 1
RampLength == (max_bps[1] + 1 - start_bps[1]) \div step_bps[1] + 1

Outstanding == Len(issued) - Len(returned)

(* C31: the controller is strictly sequential: at most one probe is         *)
(* outstanding at any time, and when the next probe is issued or the        *)
(* session ends the outcome of every earlier probe has been received and    *)
(* recorded as a step.                                                      *)
C31_OneProbeAtATimeEachRecorded ==
    /\ Outstanding \in { 0, 1 }
    /\ Outstanding = 1 => pc \in { "ramp_probe", "confirm_probe", "stepdown_probe" }
    /\ pc \in { "loop", "done" } => Outstanding = 0
    /\ Len(steps) >= Len(issued) - 1
    /\ Outstanding = 0 => Len(steps) = Len(issued)

(* ==================== properties of a run_iperf call =================== *)

AdapterReturned == adapter.pc = "returned"

(* C32: run_iperf executes the tool exactly once per call and returns       *)
(* exactly one of four results, decided in this order: the timeout error    *)
(* when the tool did not finish in time; the exit-code error when it ended  *)
(* with a non-zero code, even if its output parses; the parse error when    *)
(* its output does not parse; otherwise the parsed data and no error.       *)
C32_OneRunFourResultsInOrder ==
    /\ adapter.executions <= 1
    /\ AdapterReturned =>
          LET result == adapter.result[1]
              completed == adapter.completed
          IN  /\ adapter.executions = 1
              /\ adapter.result # None
              /\ (result.error = None) # (result.data = None)
              /\ IF completed = None
                 THEN result.error = Some("timeout")
                 ELSE IF completed[1].returncode # 0
                 THEN /\ result.error = Some(ExitError(completed[1].returncode))
                      /\ result.error \notin { Some("timeout"), Some("json_parse") }
                 ELSE IF completed[1].stdout = None
                 THEN result.error = Some("json_parse")
                 ELSE result.data = completed[1].stdout /\ result.data # None

\* The tool ended with a non-zero code after writing a document that parses:
\* the exit-code error is returned, not the data.
C32_Witness ==
    /\ AdapterReturned
    /\ adapter.completed # None
    /\ adapter.completed[1].returncode = 2
    /\ adapter.completed[1].stdout # None
    /\ adapter.result = Some([ error |-> Some("exit_2"), data |-> None ])

(* ====================== properties of bps_to_str ======================= *)

\* The value was encoded.
Encoded == codec.bps # None /\ codec.text # None

\* The number of digits before the decimal point of a positive float.
IntegerDigits(d) == Len(IntToStr(d.coef)) + d.exp

\* The unit whose scale is the largest one not above d: d >= 1e9 has ten or
\* more digits before the point, d >= 1e6 seven or more, d >= 1e3 four.
LargestUnit(d) ==
    IF d.coef <= 0 THEN ""
    ELSE IF IntegerDigits(d) >= 10 THEN "G"
    ELSE IF IntegerDigits(d) >= 7 THEN "M"
    ELSE IF IntegerDigits(d) >= 4 THEN "K"
    ELSE ""

\* Digits, a point, three digits.
HasThreeDecimals(s) ==
    /\ Len(s) >= 5
    /\ AllDigits(SubSeq(s, 1, Len(s) - 4))
    /\ CharAt(s, Len(s) - 3) = "."
    /\ AllDigits(SubSeq(s, Len(s) - 2, Len(s)))

(* C33: bps_to_str picks the largest unit among G (1e9), M (1e6) and K      *)
(* (1e3) whose scale is not above the value, a value equal to a scale       *)
(* taking that unit; it prints the scaled value with three decimals and the *)
(* unit letter, and a value below 1e3 as a whole number without a letter.   *)
C33_EncodePicksLargestUnit ==
    Encoded =>
        LET text == codec.text[1]
            unit == LargestUnit(codec.bps[1])
        IN  IF unit # ""
            THEN /\ CharAt(text, Len(text)) = unit
                 /\ HasThreeDecimals(SubSeq(text, 1, Len(text) - 1))
                 /\ Within(codec.bps[1],
                           Dec(DigitsValue(SubSeq(text, 1, Len(text) - 5)
                                             \o SubSeq(text, Len(text) - 3, Len(text) - 1)),
                               UnitExp(text) - 3),
                           Dec(5, UnitExp(text) - 4))
            ELSE /\ AllDigits(text)
                 /\ Len(text) >= 1
                 /\ Within(codec.bps[1], Dec(DigitsValue(text), 0), Dec(5, -1))

\* Exactly 1e9 is printed with G.
C33_Witness ==
    /\ Encoded
    /\ codec.bps = Some(Dec(1, 9))
    /\ codec.text = Some("1.000G")

(* ======================= properties of main() ========================== *)

\* The arguments have been parsed.
ArgsParsed == args # None /\ pc # "args"

\* The argument texts of the three classes parse_bps returns None for, and
\* the number and multiplier of the others.
BlankTexts == { "", "  " }
BareUnitTexts == { "k", " G ", "m" }
NotANumberTexts == { "abc", "1.5x", "1.2.3", "-" }

NumberOf(text) ==
    CASE text \in { "1" } -> 1
      [] text \in { " 2 ", "2", "2K" } -> 2
      [] text \in { "-1" } -> -1

MultiplierOf(text) == IF text \in { "2K" } THEN 1000 ELSE 1

Decoded(text) ==
    IF text \in BlankTexts \cup BareUnitTexts \cup NotANumberTexts
    THEN None
    ELSE Some(NumberOf(text) * MultiplierOf(text))

\* Each argument text with the value main() holds for it.
ParsedArgs ==
    { << args[1].start, start_bps >>, << args[1].step, step_bps >>,
      << args[1].max_bps, max_bps >> }

SomeArgIsNone == start_bps = None \/ step_bps = None \/ max_bps = None

NegativeTexts == { "-1" }

(* C35: every bandwidth parse_bps returned that the session uses as start,  *)
(* step or max is a non-negative number of bps: a negative argument is not  *)
(* accepted, the session does not enter the loop with it.                   *)
C35_ConfigurationIsNonNegative ==
    ArgsParsed =>
        /\ pc # "invalid" => (start_bps[1] >= 0 /\ step_bps[1] >= 0 /\ max_bps[1] >= 0)
        /\ (\E a \in ParsedArgs : a[1] \in NegativeTexts) => pc = "invalid"

\* The session left its loop and main() went on to its end.
OutputAttempted == output.pc \in { "written", "raised" }

(* C36: the caller's metadata has no influence on the session: whatever     *)
(* --meta holds, a session that leaves its loop writes its steps, its       *)
(* selected step and its stop_reason, and the meta it writes carries the    *)
(* actual direction, thresholds and start, step and max, also when the      *)
(* caller's metadata has keys of these names.                               *)
C36_MetadataNeverChangesTheOutput ==
    /\ pc = "done" => output.pc \in { "pending", "written" }
    /\ output.pc = "written" =>
          LET doc == output.written[1]
          IN  /\ doc.steps = steps
              /\ doc.selected = last_ok
              /\ doc.stop_reason = stop_reason
              /\ doc.meta["direction"] = output.direction[1]
              /\ doc.meta["loss_threshold"] = loss_threshold
              /\ doc.meta["jitter_threshold"] = jitter_threshold
              /\ doc.meta["drop_threshold"] = drop_threshold
              /\ doc.meta["start_bps"] = start_bps[1]
              /\ doc.meta["step_bps"] = step_bps[1]
              /\ doc.meta["max_bps"] = max_bps[1]
              /\ output.meta[1].kind = "object" =>
                    \A k \in DOMAIN output.meta[1].fields : k \in DOMAIN doc.meta

====
